---- MODULE Spec2Model ----
(***************************************************************************)
(* Model of legacyOptionsToPluginOptions                                   *)
(* (packages/apollo-server-core/src/plugin/usageReporting/legacyOptions.ts)*)
(* The legacy `engine` option object is the state; the one operation is a  *)
(* call of legacyOptionsToPluginOptions on it, which returns a plugin      *)
(* options object or throws, and may delete a field of its argument.       *)
(***************************************************************************)
EXTENDS Naturals, Sequences, FiniteSets

VARIABLES engine, calls

vars == <<engine, calls>>

\* ------------------------------------------------------------------ bounds

\* At most this many options are set in the engine object a run starts from.
MaxOptions == 3
\* At most this many calls of legacyOptionsToPluginOptions on that object.
MaxCalls == 2

\* --------------------------------------------------- JavaScript values
\* A value is a record of strings: its kind, for an option object of the
\* form {key: ...} its key, and its contents.

Undefined == [type |-> "undefined", key |-> "", val |-> <<>>]
Null == [type |-> "null", key |-> "", val |-> <<>>]
Bool(b) == [type |-> "boolean", key |-> "", val |-> <<IF b THEN "true" ELSE "false">>]
Num(n) == [type |-> "number", key |-> "", val |-> <<n>>]
Str(s) == [type |-> "string", key |-> "", val |-> <<s>>]
Fn(name) == [type |-> "function", key |-> "", val |-> <<name>>]
Arr(names) == [type |-> "array", key |-> "", val |-> names]
Obj(k, contents) == [type |-> "object", key |-> k, val |-> contents]

\* typeof v
TypeOf(v) == IF v.type \in {"null", "array"} THEN "object" ELSE v.type

\* The truthiness of v, as `if (v)`, `v && w` and `v ? a : b` test it.
Truthy(v) ==
  CASE v.type \in {"undefined", "null"} -> FALSE
    [] v.type = "boolean" -> v.val = <<"true">>
    [] v.type = "number" -> v.val # <<"0">>
    [] v.type = "string" -> v.val # <<"">>
    [] OTHER -> TRUE

\* Array.isArray(v)
IsArray(v) == v.type = "array"

\* v ?? w
NullishCoalesce(v, w) == IF v.type \in {"undefined", "null"} THEN w ELSE v

\* ------------------------------------------------ the legacy option object

\* The fields of EngineReportingOptions that legacyOptionsToPluginOptions
\* copies unchanged.
DirectFields ==
  {"calculateSignature", "reportIntervalMs", "maxUncompressedReportSize",
   "debugPrintReports", "requestAgent", "maxAttempts", "minimumRetryDelayMs",
   "reportErrorFunction", "sendReportsImmediately", "generateClientInfo"}

\* The fields of EngineReportingOptions the model carries: those the function
\* reads, and apiKey, which it leaves to other code.
EngineFields ==
  DirectFields \cup
  {"apiKey", "tracesEndpointUrl", "endpointUrl", "sendVariableValues",
   "reportTiming", "sendHeaders", "maskErrorDetails", "rewriteError",
   "privateVariables", "privateHeaders"}

\* The fields of ApolloServerPluginUsageReportingOptions the function assigns.
PluginFields ==
  DirectFields \cup
  {"endpointUrl", "sendVariableValues", "includeRequest", "sendHeaders",
   "rewriteError"}

\* Arrays of names a deprecated private* option is given.
NameLists == {<<>>, <<"a", "b">>, <<"b", "a">>}

\* SendValuesBaseOptions: the forms of sendHeaders.
SendValuesBaseOptions ==
  {Obj("none", <<"true">>), Obj("all", <<"true">>),
   Obj("exceptNames", <<"a", "b">>), Obj("onlyNames", <<"a">>)}

\* VariableValueOptions: the forms of sendVariableValues.
VariableValueOptions ==
  SendValuesBaseOptions \cup {Obj("transform", <<"transformFn">>)}

\* The values of the deprecated privateVariables and privateHeaders:
\* Array<String> | boolean, and the null the function tests for.
LegacyPrivateValues ==
  {Null, Bool(TRUE), Bool(FALSE)} \cup {Arr(l) : l \in NameLists}

\* The values a caller gives rewriteError: the functions of its type, and
\* the values of other types an untyped caller can pass.
RewriteErrorValues ==
  {Fn("keepError"), Fn("dropError"),
   Num("0"), Str(""), Bool(FALSE), Str("oops"), Bool(TRUE), Obj("", <<>>)}

\* The values (other than undefined) a caller gives each field.
FieldValues(f) ==
  CASE f = "apiKey" -> {Str("service:key")}
    [] f = "calculateSignature" -> {Fn("calculateSignature")}
    [] f = "reportIntervalMs" -> {Num("0")}
    [] f = "maxUncompressedReportSize" -> {Num("4096")}
    [] f = "debugPrintReports" -> {Bool(TRUE)}
    [] f = "requestAgent" -> {Bool(FALSE)}
    [] f = "maxAttempts" -> {Num("5")}
    [] f = "minimumRetryDelayMs" -> {Num("100")}
    [] f = "reportErrorFunction" -> {Fn("reportErrorFunction")}
    [] f = "sendReportsImmediately" -> {Bool(FALSE)}
    [] f = "generateClientInfo" -> {Fn("generateClientInfo")}
    [] f = "tracesEndpointUrl" -> {Null, Str(""), Str("new")}
    [] f = "endpointUrl" -> {Str(""), Str("old")}
    [] f = "sendVariableValues" -> VariableValueOptions
    [] f = "sendHeaders" -> SendValuesBaseOptions
    [] f = "reportTiming" -> {Bool(TRUE), Fn("reportTiming")}
    [] f = "maskErrorDetails" -> {Bool(TRUE), Bool(FALSE)}
    [] f = "rewriteError" -> RewriteErrorValues
    [] f = "privateVariables" -> LegacyPrivateValues
    [] f = "privateHeaders" -> LegacyPrivateValues

\* The sets of at most k fields.
RECURSIVE FieldSets(_)
FieldSets(k) ==
  IF k = 0 THEN {{}}
  ELSE LET smaller == FieldSets(k - 1)
       IN smaller \cup {s \cup {f} : s \in smaller, f \in EngineFields}

\* The values field f takes in an object that sets the fields in s: one of
\* its values when set, undefined (what reading a missing field yields) when
\* not.
Given(f, s) == IF f \in s THEN FieldValues(f) ELSE {Undefined}

\* The objects that set exactly the fields in s.
EngineObjects(s) ==
  [apiKey : Given("apiKey", s),
   calculateSignature : Given("calculateSignature", s),
   reportIntervalMs : Given("reportIntervalMs", s),
   maxUncompressedReportSize : Given("maxUncompressedReportSize", s),
   endpointUrl : Given("endpointUrl", s),
   tracesEndpointUrl : Given("tracesEndpointUrl", s),
   debugPrintReports : Given("debugPrintReports", s),
   requestAgent : Given("requestAgent", s),
   maxAttempts : Given("maxAttempts", s),
   minimumRetryDelayMs : Given("minimumRetryDelayMs", s),
   reportErrorFunction : Given("reportErrorFunction", s),
   sendVariableValues : Given("sendVariableValues", s),
   reportTiming : Given("reportTiming", s),
   privateVariables : Given("privateVariables", s),
   sendHeaders : Given("sendHeaders", s),
   privateHeaders : Given("privateHeaders", s),
   sendReportsImmediately : Given("sendReportsImmediately", s),
   maskErrorDetails : Given("maskErrorDetails", s),
   rewriteError : Given("rewriteError", s),
   generateClientInfo : Given("generateClientInfo", s)]

\* ------------------------------------------- legacyOptionsToPluginOptions

MaskConflictMessage == "Can't set both maskErrorDetails and rewriteError!"
RewriteErrorTypeMessage == "rewriteError must be a function"
VariablesConflictMessage ==
  "You have set both the 'sendVariableValues' and the deprecated 'privateVariables' options."
HeadersConflictMessage ==
  "You have set both the 'sendHeaders' and the deprecated 'privateVariables' options."

\* The option names a thrown message quotes.
QuotedOptions(message) ==
  CASE message = MaskConflictMessage -> {"maskErrorDetails", "rewriteError"}
    [] message = RewriteErrorTypeMessage -> {"rewriteError"}
    [] message = VariablesConflictMessage -> {"sendVariableValues", "privateVariables"}
    [] message = HeadersConflictMessage -> {"sendHeaders", "privateVariables"}
    [] OTHER -> {}

\* Mutant of EndpointUrl: `||` in place of `??`.
EndpointUrl_Or(e) ==
  IF Truthy(e["tracesEndpointUrl"]) THEN e["tracesEndpointUrl"] ELSE e["endpointUrl"]

\* pluginOptions.endpointUrl = engine.tracesEndpointUrl ?? engine.endpointUrl
EndpointUrl(e) == NullishCoalesce(e["tracesEndpointUrl"], e["endpointUrl"])

\* includeRequest is assigned only when reportTiming is a function.
IncludeRequest(e) ==
  IF TypeOf(e["reportTiming"]) = "function" THEN e["reportTiming"] ELSE Undefined

\* Mutant of MaskedRewriteError: the synthesized function returns the error
\* it is given.
MaskedRewriteError_Keep == Fn("keepError")

\* () => new GraphQLError('<masked>')
MaskedRewriteError == Fn("masked")

\* A GraphQLError, as far as rewriteError is concerned: its message and the
\* rest of its contents.
GraphQLError(message, extensions) == [message |-> message, extensions |-> extensions]

\* The errors a rewriteError function is applied to.
GraphQLErrors ==
  {GraphQLError(m, x) : m \in {"", "secret", "<masked>"}, x \in {"", "code"}}

\* fn(err) for a rewriteError function: the error it returns, none for null.
\* The synthesized function ignores its argument and makes a new error with
\* the message '<masked>'.
CallRewriteError(fn, err) ==
  CASE fn = Fn("masked") -> <<GraphQLError("<masked>", "")>>
    [] fn = Fn("dropError") -> <<>>
    [] OTHER -> <<err>>

\* Mutant of NormalizeMaskErrorDetails: maskErrorDetails is looked at first.
NormalizeMaskErrorDetails_MaskFirst(e) ==
  IF Truthy(e["maskErrorDetails"])
  THEN [error |-> "", value |-> MaskedRewriteError, deleted |-> TRUE]
  ELSE IF Truthy(e["rewriteError"]) /\ TypeOf(e["rewriteError"]) # "function"
  THEN [error |-> RewriteErrorTypeMessage, value |-> Undefined, deleted |-> FALSE]
  ELSE IF Truthy(e["rewriteError"])
  THEN [error |-> "", value |-> e["rewriteError"], deleted |-> FALSE]
  ELSE [error |-> "", value |-> Undefined, deleted |-> FALSE]

\* Mutant of NormalizeMaskErrorDetails: no test of the type of rewriteError.
NormalizeMaskErrorDetails_NoTypeCheck(e) ==
  IF Truthy(e["maskErrorDetails"]) /\ Truthy(e["rewriteError"])
  THEN [error |-> MaskConflictMessage, value |-> Undefined, deleted |-> FALSE]
  ELSE IF Truthy(e["maskErrorDetails"])
  THEN [error |-> "", value |-> MaskedRewriteError, deleted |-> TRUE]
  ELSE IF Truthy(e["rewriteError"])
  THEN [error |-> "", value |-> e["rewriteError"], deleted |-> FALSE]
  ELSE [error |-> "", value |-> Undefined, deleted |-> FALSE]

\* The maskErrorDetails / rewriteError step: the message it throws ("" when
\* it throws nothing), the rewriteError it assigns, and whether it deletes
\* engine.maskErrorDetails.
NormalizeMaskErrorDetails(e) ==
  IF Truthy(e["maskErrorDetails"]) /\ Truthy(e["rewriteError"])
  THEN [error |-> MaskConflictMessage, value |-> Undefined, deleted |-> FALSE]
  ELSE IF Truthy(e["rewriteError"]) /\ TypeOf(e["rewriteError"]) # "function"
  THEN [error |-> RewriteErrorTypeMessage, value |-> Undefined, deleted |-> FALSE]
  ELSE IF Truthy(e["maskErrorDetails"])
  THEN [error |-> "", value |-> MaskedRewriteError, deleted |-> TRUE]
  ELSE IF Truthy(e["rewriteError"])
  THEN [error |-> "", value |-> e["rewriteError"], deleted |-> FALSE]
  ELSE [error |-> "", value |-> Undefined, deleted |-> FALSE]

\* Mutant of makeSendValuesBaseOptionsFromLegacy: no Array.isArray test.
makeSendValuesBaseOptionsFromLegacy_NoArray(legacyPrivateOption) ==
  IF Truthy(legacyPrivateOption)
  THEN Obj("none", <<"true">>)
  ELSE Obj("all", <<"true">>)

\* Wraps a non-null value of a deprecated private* option into the form of
\* its replacement.
makeSendValuesBaseOptionsFromLegacy(legacyPrivateOption) ==
  IF IsArray(legacyPrivateOption)
  THEN Obj("exceptNames", legacyPrivateOption.val)
  ELSE IF Truthy(legacyPrivateOption)
  THEN Obj("none", <<"true">>)
  ELSE Obj("all", <<"true">>)

\* Mutant of NormalizePrivateVariables: the conflict test is
\* `engine.privateVariables && engine.sendVariableValues`.
NormalizePrivateVariables_TruthyTest(e) ==
  IF Truthy(e["privateVariables"]) /\ Truthy(e["sendVariableValues"])
  THEN [error |-> VariablesConflictMessage, value |-> Undefined]
  ELSE IF TypeOf(e["privateVariables"]) # "undefined"
  THEN IF e["privateVariables"] # Null
       THEN [error |-> "",
             value |-> makeSendValuesBaseOptionsFromLegacy(e["privateVariables"])]
       ELSE [error |-> "", value |-> e["sendVariableValues"]]
  ELSE [error |-> "", value |-> e["sendVariableValues"]]

\* The privateVariables step: the message it throws ("" when it throws
\* nothing) and the sendVariableValues it leaves in pluginOptions.
NormalizePrivateVariables(e) ==
  IF TypeOf(e["privateVariables"]) # "undefined" /\ Truthy(e["sendVariableValues"])
  THEN [error |-> VariablesConflictMessage, value |-> Undefined]
  ELSE IF TypeOf(e["privateVariables"]) # "undefined"
  THEN IF e["privateVariables"] # Null
       THEN [error |-> "",
             value |-> makeSendValuesBaseOptionsFromLegacy(e["privateVariables"])]
       ELSE [error |-> "", value |-> e["sendVariableValues"]]
  ELSE [error |-> "", value |-> e["sendVariableValues"]]

\* The privateHeaders step, likewise for sendHeaders.
NormalizePrivateHeaders(e) ==
  IF TypeOf(e["privateHeaders"]) # "undefined" /\ Truthy(e["sendHeaders"])
  THEN [error |-> HeadersConflictMessage, value |-> Undefined]
  ELSE IF TypeOf(e["privateHeaders"]) # "undefined"
  THEN IF e["privateHeaders"] # Null
       THEN [error |-> "",
             value |-> makeSendValuesBaseOptionsFromLegacy(e["privateHeaders"])]
       ELSE [error |-> "", value |-> e["sendHeaders"]]
  ELSE [error |-> "", value |-> e["sendHeaders"]]

\* Mutant of DirectOption: `engine[f] || undefined`.
DirectOption_Or(e, f) == IF Truthy(e[f]) THEN e[f] ELSE Undefined

\* The value of a field the function copies unchanged.
DirectOption(e, f) == e[f]

\* The pluginOptions object the function has built when it returns.
PluginOptions(e) ==
  [f \in PluginFields |->
     CASE f = "endpointUrl" -> EndpointUrl(e)
       [] f = "includeRequest" -> IncludeRequest(e)
       [] f = "rewriteError" -> NormalizeMaskErrorDetails(e).value
       [] f = "sendVariableValues" -> NormalizePrivateVariables(e).value
       [] f = "sendHeaders" -> NormalizePrivateHeaders(e).value
       [] OTHER -> DirectOption(e, f)]

\* The first message the function throws on e, "" when it returns: the steps
\* run in the order mask, variables, headers.
ThrownMessage(e) ==
  IF NormalizeMaskErrorDetails(e).error # "" THEN NormalizeMaskErrorDetails(e).error
  ELSE IF NormalizePrivateVariables(e).error # "" THEN NormalizePrivateVariables(e).error
  ELSE NormalizePrivateHeaders(e).error

\* The engine object after the call: `delete engine.maskErrorDetails` runs
\* in the mask step, before the later steps can throw.
EngineAfter(e) ==
  IF NormalizeMaskErrorDetails(e).deleted
  THEN [e EXCEPT !["maskErrorDetails"] = Undefined]
  ELSE e

\* One call: what it was given, the message thrown ("" for none) and the
\* object returned (none when it threw).
legacyOptionsToPluginOptions(e) ==
  [input |-> e,
   error |-> ThrownMessage(e),
   returned |-> IF ThrownMessage(e) = "" THEN <<PluginOptions(e)>> ELSE <<>>]

\* ---------------------------------------------------------- state machine

Init ==
  /\ \E s \in FieldSets(MaxOptions) : engine \in EngineObjects(s)
  /\ calls = <<>>

\* A caller passes the engine object to legacyOptionsToPluginOptions.
Normalize ==
  /\ Len(calls) < MaxCalls
  /\ calls' = Append(calls, legacyOptionsToPluginOptions(engine))
  /\ engine' = EngineAfter(engine)

Next == Normalize

Spec == Init /\ [][Next]_vars

TypeOK ==
  /\ DOMAIN engine = EngineFields
  /\ \A f \in EngineFields : engine[f] \in FieldValues(f) \cup {Undefined}
  /\ Cardinality({f \in EngineFields : engine[f] # Undefined}) <= MaxOptions
  /\ Len(calls) <= MaxCalls

\* ------------------------------------------------------------ properties

\* The call threw / returned.
Threw(c) == c.error # "" /\ c.returned = <<>>
Returned(c) == c.error = "" /\ Len(c.returned) = 1
\* The object a call returned.
Canonical(c) == c.returned[1]

\* The messages of the conflicting-options errors.
ConflictingOptionsMessages ==
  {MaskConflictMessage, VariablesConflictMessage, HeadersConflictMessage}

\* A field is set when reading it does not yield undefined.
IsSet(v) == v # Undefined
\* A redaction rule is set for sendVariableValues.
RuleSet(e) == e["sendVariableValues"] \in VariableValueOptions
\* rewriteError is valid: absent, or a function.
RewriteErrorValid(e) == e["rewriteError"].type \in {"undefined", "function"}

\* C1: every call, returning or throwing, leaves the object it was given
\* with the same fields and values.
C1_InputUnchanged == \A i \in DOMAIN calls : engine = calls[i].input

\* C2: with privateVariables explicitly null and sendVariableValues set to
\* a rule, the call does not fail and the canonical sendVariableValues is
\* that rule.
C2_NullPassesRule ==
  \A i \in DOMAIN calls :
    LET e == calls[i].input IN
    (e["privateVariables"] = Null /\ RuleSet(e)) =>
      /\ Returned(calls[i])
      /\ Canonical(calls[i])["sendVariableValues"] = e["sendVariableValues"]

\* C3: with privateVariables non-null (true, false or an array, the empty
\* one included) and sendVariableValues set to a rule, the call throws a
\* conflicting-options error and returns nothing, whatever the other fields
\* hold; the error is the privateVariables / sendVariableValues one unless
\* maskErrorDetails and rewriteError conflict as well.
C3_BothVariableOptionsConflict ==
  \A i \in DOMAIN calls :
    LET e == calls[i].input IN
    (/\ e["privateVariables"] \in LegacyPrivateValues \ {Null}
     /\ RuleSet(e)
     /\ RewriteErrorValid(e)) =>
      /\ Threw(calls[i])
      /\ calls[i].error \in ConflictingOptionsMessages
      /\ calls[i].error = VariablesConflictMessage
           \/ (Truthy(e["maskErrorDetails"]) /\ IsSet(e["rewriteError"]))

\* A call in C3's case: privateVariables the empty array, a rule set, a third
\* option set, and the privateVariables conflict thrown.
C3_Witness ==
  \E i \in DOMAIN calls :
    LET e == calls[i].input IN
    /\ e["privateVariables"] = Arr(<<>>)
    /\ RuleSet(e)
    /\ IsSet(e["privateHeaders"])
    /\ calls[i].error = VariablesConflictMessage
    /\ calls[i].returned = <<>>

\* What C4 says privateVariables converts to.
C4_Expected(v) ==
  CASE v = Bool(TRUE) -> Obj("none", <<"true">>)
    [] v = Bool(FALSE) -> Obj("all", <<"true">>)
    [] OTHER -> Obj("exceptNames", v.val)

\* C4: with privateVariables set (non-null) and sendVariableValues absent,
\* the canonical sendVariableValues of a call that returns is {none: true}
\* for true, {all: true} for false and {exceptNames: A}, same names in the
\* same order, for an array A.
C4_PrivateVariablesConverted ==
  \A i \in DOMAIN calls :
    LET e == calls[i].input IN
    (/\ e["privateVariables"] \in LegacyPrivateValues \ {Null}
     /\ ~IsSet(e["sendVariableValues"])
     /\ Returned(calls[i])) =>
      Canonical(calls[i])["sendVariableValues"] = C4_Expected(e["privateVariables"])

\* A call in C4's case: privateVariables an array of two names, alone,
\* converted to exceptNames with the names in the order given.
C4_Witness ==
  \E i \in DOMAIN calls :
    /\ calls[i].input["privateVariables"] = Arr(<<"b", "a">>)
    /\ ~IsSet(calls[i].input["sendVariableValues"])
    /\ Returned(calls[i])
    /\ Canonical(calls[i])["sendVariableValues"] = Obj("exceptNames", <<"b", "a">>)

\* C5 as stated: with rewriteError set to any value that is not a function,
\* falsy ones included, the call throws 'rewriteError must be a function'.
C5_NonFunctionRejected ==
  \A i \in DOMAIN calls :
    LET e == calls[i].input IN
    (IsSet(e["rewriteError"]) /\ e["rewriteError"].type # "function") =>
      /\ Threw(calls[i])
      /\ calls[i].error = RewriteErrorTypeMessage

\* C5 amended: with rewriteError a truthy value that is not a function the
\* call throws and returns nothing, 'rewriteError must be a function' unless
\* maskErrorDetails is truthy, and then the maskErrorDetails / rewriteError
\* conflict; a falsy rewriteError (0, '', false) never raises 'rewriteError
\* must be a function' and a call that returns leaves rewriteError as if it
\* had been absent.
C5_TruthyNonFunctionRejected ==
  \A i \in DOMAIN calls :
    LET e == calls[i].input IN
    (IsSet(e["rewriteError"]) /\ e["rewriteError"].type # "function") =>
      IF Truthy(e["rewriteError"])
      THEN /\ Threw(calls[i])
           /\ calls[i].error = IF Truthy(e["maskErrorDetails"])
                               THEN MaskConflictMessage
                               ELSE RewriteErrorTypeMessage
      ELSE /\ calls[i].error # RewriteErrorTypeMessage
           /\ Returned(calls[i]) =>
                Canonical(calls[i])["rewriteError"] =
                  IF Truthy(e["maskErrorDetails"]) THEN MaskedRewriteError ELSE Undefined

\* A call in C5's case: rewriteError an object, rejected for its type.
C5_Witness ==
  \E i \in DOMAIN calls :
    /\ calls[i].input["rewriteError"] = Obj("", <<>>)
    /\ calls[i].error = RewriteErrorTypeMessage
    /\ calls[i].returned = <<>>

\* C6: with maskErrorDetails true and rewriteError a function, the call
\* throws the maskErrorDetails / rewriteError conflict and returns nothing,
\* so no canonical rewriteError is produced.
C6_MaskAndRewriteConflict ==
  \A i \in DOMAIN calls :
    LET e == calls[i].input IN
    (e["maskErrorDetails"] = Bool(TRUE) /\ e["rewriteError"].type = "function") =>
      /\ Threw(calls[i])
      /\ calls[i].error = MaskConflictMessage

\* A call in C6's case.
C6_Witness ==
  \E i \in DOMAIN calls :
    /\ calls[i].input["maskErrorDetails"] = Bool(TRUE)
    /\ calls[i].input["rewriteError"] = Fn("keepError")
    /\ calls[i].error = MaskConflictMessage
    /\ calls[i].returned = <<>>

\* C7: with maskErrorDetails true and rewriteError unset, the canonical
\* rewriteError of a call that returns is a function that, for every error,
\* returns an error (not null) whose message is '<masked>'.
C7_MaskedFunction ==
  \A i \in DOMAIN calls :
    LET e == calls[i].input IN
    (/\ e["maskErrorDetails"] = Bool(TRUE)
     /\ ~IsSet(e["rewriteError"])
     /\ Returned(calls[i])) =>
      LET fn == Canonical(calls[i])["rewriteError"] IN
      /\ TypeOf(fn) = "function"
      /\ \A err \in GraphQLErrors :
           /\ Len(CallRewriteError(fn, err)) = 1
           /\ CallRewriteError(fn, err)[1].message = "<masked>"

\* A call in C7's case, whose rewriteError masks an error with a message and
\* other contents.
C7_Witness ==
  \E i \in DOMAIN calls :
    /\ calls[i].input["maskErrorDetails"] = Bool(TRUE)
    /\ ~IsSet(calls[i].input["rewriteError"])
    /\ Returned(calls[i])
    /\ CallRewriteError(Canonical(calls[i])["rewriteError"],
                        GraphQLError("secret", "code")) = <<GraphQLError("<masked>", "")>>

\* A URL option is set: it holds a string.
UrlSet(v) == v.type = "string"

\* C8: the canonical endpointUrl of a call that returns is tracesEndpointUrl
\* when that is set, else the deprecated endpointUrl when that is set, else
\* absent; and the URL options raise no error: a call throws what it throws
\* with both of them removed.
C8_EndpointUrlResolution ==
  \A i \in DOMAIN calls :
    LET e == calls[i].input
        noUrls == [e EXCEPT !["tracesEndpointUrl"] = Undefined,
                            !["endpointUrl"] = Undefined]
    IN
    /\ Returned(calls[i]) =>
         Canonical(calls[i])["endpointUrl"] =
           IF UrlSet(e["tracesEndpointUrl"]) THEN e["tracesEndpointUrl"]
           ELSE IF UrlSet(e["endpointUrl"]) THEN e["endpointUrl"]
           ELSE Undefined
    /\ calls[i].error = legacyOptionsToPluginOptions(noUrls).error
    /\ (\A f \in EngineFields \ {"tracesEndpointUrl", "endpointUrl"} : ~IsSet(e[f])) =>
         Returned(calls[i])

\* A call in C8's case: both URLs set, the current one to the empty string,
\* which the call returns.
C8_Witness ==
  \E i \in DOMAIN calls :
    /\ calls[i].input["tracesEndpointUrl"] = Str("")
    /\ calls[i].input["endpointUrl"] = Str("old")
    /\ Returned(calls[i])
    /\ Canonical(calls[i])["endpointUrl"] = Str("")

\* C9: two calls on the same object have the same outcome: the same error,
\* or returned objects equal field by field.
C9_SameOutcome ==
  \A i, j \in DOMAIN calls :
    /\ calls[i].error = calls[j].error
    /\ calls[i].returned = calls[j].returned

\* The deprecated options of C10.
DeprecatedFields ==
  {"endpointUrl", "privateVariables", "privateHeaders", "maskErrorDetails"}

\* C10: with no deprecated option set and rewriteError a function or absent,
\* the call returns, and each canonical field equals the current field of the
\* input of that meaning (endpointUrl that of tracesEndpointUrl), absent when
\* that one is absent.
C10_PassThrough ==
  \A i \in DOMAIN calls :
    LET e == calls[i].input IN
    ((\A f \in DeprecatedFields : ~IsSet(e[f])) /\ RewriteErrorValid(e)) =>
      /\ Returned(calls[i])
      /\ \A f \in DirectFields \cup {"sendVariableValues", "sendHeaders", "rewriteError"} :
           Canonical(calls[i])[f] = e[f]
      /\ Canonical(calls[i])["endpointUrl"] =
           IF UrlSet(e["tracesEndpointUrl"]) THEN e["tracesEndpointUrl"] ELSE Undefined

\* A call in C10's case: three current options set, two of them falsy, all
\* three returned as given.
C10_Witness ==
  \E i \in DOMAIN calls :
    LET e == calls[i].input IN
    /\ \A f \in DeprecatedFields : ~IsSet(e[f])
    /\ e["reportIntervalMs"] = Num("0")
    /\ e["requestAgent"] = Bool(FALSE)
    /\ e["rewriteError"] = Fn("dropError")
    /\ Returned(calls[i])
    /\ Canonical(calls[i])["reportIntervalMs"] = Num("0")
    /\ Canonical(calls[i])["requestAgent"] = Bool(FALSE)
    /\ Canonical(calls[i])["rewriteError"] = Fn("dropError")

\* The object e with the values of its header pair given to the variable
\* pair instead: privateVariables holds what privateHeaders held and
\* sendVariableValues what sendHeaders held.
AsVariablePair(e) ==
  [e EXCEPT !["privateVariables"] = e["privateHeaders"],
            !["sendVariableValues"] = e["sendHeaders"],
            !["privateHeaders"] = Undefined,
            !["sendHeaders"] = Undefined]

\* The input of a call sets neither option of the variable pair.
VariablePairUnset(e) ==
  ~IsSet(e["privateVariables"]) /\ ~IsSet(e["sendVariableValues"])

\* First part of C11: a call on an object that gives (d, c) to the header
\* pair throws the header conflict exactly when a call on the object that
\* gives (d, c) to the variable pair throws the variable conflict, and
\* otherwise its canonical sendHeaders is the other's canonical
\* sendVariableValues.
C11_SameRule ==
  \A i \in DOMAIN calls :
    LET e == calls[i].input
        r == legacyOptionsToPluginOptions(AsVariablePair(e))
    IN
    VariablePairUnset(e) =>
      /\ (calls[i].error = HeadersConflictMessage) <=> (r.error = VariablesConflictMessage)
      /\ Returned(calls[i]) <=> Returned(r)
      /\ Returned(calls[i]) =>
           Canonical(calls[i])["sendHeaders"] = Canonical(r)["sendVariableValues"]

\* Second part of C11: a header conflict error names sendHeaders and
\* privateHeaders as the conflicting options.
C11_ConflictNamesHeaderPair ==
  \A i \in DOMAIN calls :
    calls[i].error = HeadersConflictMessage =>
      QuotedOptions(calls[i].error) = {"sendHeaders", "privateHeaders"}

\* C11: privateHeaders / sendHeaders follow exactly the rule of
\* privateVariables / sendVariableValues: for d absent, null, true, false or
\* an array and c absent or a rule, the outcome on the header pair (conflict,
\* or the canonical sendHeaders or its absence) is the outcome on the
\* variable pair read on sendVariableValues, and a header conflict error
\* names sendHeaders and privateHeaders as the conflicting options.
C11_HeaderPairAsVariablePair == C11_SameRule /\ C11_ConflictNamesHeaderPair

====
